---- MODULE Spec2Model ----
(***************************************************************************)
(* Model of crates/cli/src/bin/wasm-bindgen-test-runner/server.rs: the     *)
(* test runner's HTTP server (spawn, Server::run, Handler::process_request,*)
(* try_asset, mime).                                                       *)
(*                                                                         *)
(* Strings (request targets, paths, the generated script) are sequences of *)
(* tokens.  The delimiters "/", "." and ":" are tokens of their own; every *)
(* other token is a maximal run of ordinary characters, so splitting on a  *)
(* delimiter is splitting the sequence.                                    *)
(***************************************************************************)
EXTENDS Integers, Sequences, FiniteSets, TLC

VARIABLES fs, headless, tests, spawn_pc, socket, queue, conns, request, response

vars == <<fs, headless, tests, spawn_pc, socket, queue, conns, request, response>>

(***************************************************************************)
(* Bounds                                                                  *)
(***************************************************************************)
\* number of path segments in a request target
MaxSegs == 2
\* number of test names handed to spawn
MaxTests == 3
\* number of connections the server sees
MaxConn == 2

(***************************************************************************)
(* Strings and paths                                                       *)
(***************************************************************************)
Dot == <<".">>
DotDot == <<".", ".">>

Last(s) == s[Len(s)]

\* str.split('/'): the runs between separators, empty runs included
RECURSIVE SplitFrom(_, _, _)
SplitFrom(s, done, run) ==
    IF s = <<>> THEN Append(done, run)
    ELSE IF Head(s) = "/" THEN SplitFrom(Tail(s), Append(done, run), <<>>)
    ELSE SplitFrom(Tail(s), done, Append(run, Head(s)))

SplitSlash(s) == SplitFrom(s, <<>>, <<>>)

RECURSIVE JoinSlash(_)
JoinSlash(segs) ==
    IF segs = <<>> THEN <<>>
    ELSE IF Len(segs) = 1 THEN Head(segs)
    ELSE Head(segs) \o <<"/">> \o JoinSlash(Tail(segs))

RECURSIVE SkipSlashes(_)
SkipSlashes(s) ==
    IF s # <<>> /\ Head(s) = "/" THEN SkipSlashes(Tail(s)) ELSE s

RECURSIVE StripTrailingSlashes(_)
StripTrailingSlashes(s) ==
    IF s # <<>> /\ Last(s) = "/" THEN StripTrailingSlashes(SubSeq(s, 1, Len(s) - 1))
    ELSE s

\* `let x = v` with v computed once: F applied to the value of v
Let(v, F(_)) == CHOOSE r \in {F(x) : x \in {v}} : TRUE

None == [some |-> FALSE, val |-> <<>>]
Some(v) == [some |-> TRUE, val |-> v]

\* the process's current directory and the two roots handed to try_asset
Cwd == << <<"p">> >>
tmpdir == <<"/", "t">>
ProjectDir == <<".">>

IsNormalComponent(c) == c # <<>> /\ c # Dot

\* Path::components(): separators collapse and "." components vanish
Components(p) == SelectSeq(SplitSlash(p), IsNormalComponent)

\* Path::file_name(): the last component unless the path ends in ".."
FileName(p) ==
    Let(Components(p), LAMBDA c :
        IF c = <<>> \/ Last(c) = DotDot THEN None ELSE Some(Last(c)))

\* Path::extension(): what follows the last "." of the file name; a file
\* name whose only "." is its first character has no extension
LastDot(n) ==
    IF \E i \in 1..Len(n) : n[i] = "."
    THEN CHOOSE k \in 1..Len(n) : n[k] = "." /\ \A j \in (k + 1)..Len(n) : n[j] # "."
    ELSE 0

Extension(p) ==
    Let(FileName(p), LAMBDA fname :
        IF ~fname.some \/ LastDot(fname.val) <= 1 THEN None
        ELSE Some(SubSeq(fname.val, LastDot(fname.val) + 1, Len(fname.val))))

\* PathBuf::set_extension("js") on a path without extension: no change when
\* there is no file name, else ".js" right after the file name
SetExtensionJs(p) ==
    IF ~FileName(p).some THEN p
    ELSE StripTrailingSlashes(p) \o <<".", "js">>

\* Path::join: an absolute argument replaces the base
Join(dir, rel) ==
    IF rel # <<>> /\ Head(rel) = "/" THEN rel
    ELSE IF Last(dir) = "/" THEN dir \o rel
    ELSE dir \o <<"/">> \o rel

\* the file the operating system resolves a path to: absolute paths from
\* the filesystem root, relative ones from the current directory
Canon(p) ==
    IF p # <<>> /\ Head(p) = "/" THEN Components(p) ELSE Cwd \o Components(p)

\* fs::File::open succeeds: a regular file is there (a trailing separator
\* asks for a directory)
CanOpen(p) == Last(p) # "/" /\ Canon(p) \in DOMAIN fs

(***************************************************************************)
(* Url::parse and Url::path, for request targets that are either in origin *)
(* form ("/a.js") or absolute http URLs ("http://h/a.js")                  *)
(***************************************************************************)
\* the path state of the URL parser: "." segments are dropped, ".." pops
\* the previous segment, empty segments are kept
RECURSIVE PathState(_, _)
\* a "." or ".." that ends the path leaves an empty last segment
Closing(segs) == IF Len(segs) = 1 THEN << <<>> >> ELSE <<>>

PathState(segs, out) ==
    IF segs = <<>> THEN out
    ELSE IF Head(segs) = DotDot
         THEN PathState(Tail(segs),
                        (IF out = <<>> THEN out ELSE SubSeq(out, 1, Len(out) - 1))
                        \o Closing(segs))
    ELSE IF Head(segs) = Dot THEN PathState(Tail(segs), out \o Closing(segs))
    ELSE PathState(Tail(segs), Append(out, Head(segs)))

UrlPath(rest) ==
    IF rest = <<>> THEN <<"/">>
    ELSE <<"/">> \o JoinSlash(PathState(SplitSlash(Tail(rest)), <<>>))

\* Url::parse(input) has no base URL: input without a scheme is
\* Err(RelativeUrlWithoutBase); after "http:" the slashes are skipped, the
\* host runs to the next "/" and must not be empty
HostLen(auth) ==
    IF \E i \in 1..Len(auth) : auth[i] = "/"
    THEN (CHOOSE k \in 1..Len(auth) : auth[k] = "/" /\ \A j \in 1..(k - 1) : auth[j] # "/") - 1
    ELSE Len(auth)

UrlParse(s) ==
    IF Len(s) >= 2 /\ s[1] = "http" /\ s[2] = ":"
    THEN Let(SkipSlashes(SubSeq(s, 3, Len(s))), LAMBDA auth :
             IF HostLen(auth) = 0 THEN [ok |-> FALSE, path |-> <<>>]
             ELSE [ok |-> TRUE, path |-> UrlPath(SubSeq(auth, HostLen(auth) + 1, Len(auth)))])
    ELSE [ok |-> FALSE, path |-> <<>>]

(***************************************************************************)
(* Responses                                                               *)
(***************************************************************************)
NoFile == <<>>
EmptyBody == [src |-> <<>>, text |-> <<>>]
TemplateHeadless == [src |-> << <<"index-headless.html">> >>, text |-> <<>>]
TemplateInteractive == [src |-> << <<"index.html">> >>, text |-> <<>>]

\* Response::empty(404)
e404 == [status |-> 404, content_type |-> "none", body |-> EmptyBody, file |-> NoFile]

NoResponse == [status |-> 0, content_type |-> "none", body |-> EmptyBody, file |-> NoFile]

mime(p) ==
    LET e == Extension(p) IN
    IF e = Some(<<"js">>) THEN "text/javascript"
    ELSE IF e = Some(<<"wasm">>) THEN "application/wasm"
    ELSE IF e = Some(<<"html">>) THEN "text/html"
    ELSE "application/octet-stream"

\* Response::from_file(f).with_header(mime(&full_path))
FileResponse(full_path) ==
    [status |-> 200, content_type |-> mime(full_path),
     body |-> fs[Canon(full_path)], file |-> Canon(full_path)]

NoAsset == [some |-> FALSE, val |-> e404]

try_asset(path, dir) ==
    IF path = <<>> \/ Head(path) # "/" THEN NoAsset
    ELSE Let(Join(dir, Tail(path)), LAMBDA full_path :
             IF CanOpen(full_path) THEN Some(FileResponse(full_path))
             ELSE IF ~Extension(full_path).some /\ CanOpen(SetExtensionJs(full_path))
                  THEN Some(FileResponse(SetExtensionJs(full_path)))
                  ELSE NoAsset)

\* the resolution order the specification describes: both exact paths first
find_asset_exact_first(path) ==
    IF path = <<>> \/ Head(path) # "/" THEN NoAsset
    ELSE Let(<<Join(tmpdir, Tail(path)), Join(ProjectDir, Tail(path))>>, LAMBDA d :
             IF CanOpen(d[1]) THEN Some(FileResponse(d[1]))
             ELSE IF CanOpen(d[2]) THEN Some(FileResponse(d[2]))
             ELSE IF ~Extension(d[1]).some /\ CanOpen(SetExtensionJs(d[1]))
                  THEN Some(FileResponse(SetExtensionJs(d[1])))
             ELSE IF ~Extension(d[2]).some /\ CanOpen(SetExtensionJs(d[2]))
                  THEN Some(FileResponse(SetExtensionJs(d[2])))
             ELSE NoAsset)

\* try_asset(&url, &self.tmpdir).or_else(|| try_asset(&url, ".".as_ref()))
find_asset(path) ==
    Let(try_asset(path, tmpdir), LAMBDA a :
        IF a.some THEN a ELSE try_asset(path, ProjectDir))

\* Handler::process_request: the response handed to request.respond
process_request(url) ==
    Let(UrlParse(url), LAMBDA u :
        IF ~u.ok THEN e404
        ELSE IF url = <<"/">>
             THEN [status |-> 200, content_type |-> mime(<<"index", ".", "html">>),
                   body |-> IF headless THEN TemplateHeadless ELSE TemplateInteractive,
                   file |-> NoFile]
        ELSE Let(find_asset(u.path), LAMBDA file_response :
                 IF file_response.some THEN file_response.val ELSE e404))

(***************************************************************************)
(* spawn: the bootstrap script                                             *)
(***************************************************************************)
Module == "m"
Args == <<"--filter", "foo">>
TestNames == {"t1", "t2"}

RECURSIVE DebugList(_)
DebugList(args) ==
    IF args = <<>> THEN <<>>
    ELSE <<"\"", Head(args), "\"">>
         \o (IF Len(args) > 1 THEN <<", ">> ELSE <<>>) \o DebugList(Tail(args))

\* the format! template with {0} = module and {1:?} = args
Prelude(module, args) ==
    <<"import { WasmBindgenTestContext as Context, ... default as init } from './",
      module, "';\n",
      "document.getElementById('output').textContent = \"Loading wasm module...\";\n",
      "async function main(test) {\n",
      "const wasm = await init('./", module, "_bg.wasm');\n",
      "const cx = new Context(); window.on_console_* = __wbgtest_console_*;\n",
      "cx.args(", "[">> \o DebugList(args) \o <<"]", ");\n",
      "await cx.run(test.map(s => wasm[s]));\n",
      "}\n",
      "const tests = [];\n">>

RECURSIVE PushTestsReversed(_)
PushTestsReversed(ts) ==
    IF ts = <<>> THEN <<>>
    ELSE PushTestsReversed(Tail(ts)) \o <<"tests.push('", Head(ts), "');\n">>

\* for test in tests { js_to_execute.push_str(&format!("tests.push('{}');\n", test)) }
RECURSIVE PushTests(_)
PushTests(ts) ==
    IF ts = <<>> THEN <<>>
    ELSE <<"tests.push('", Head(ts), "');\n">> \o PushTests(Tail(ts))

js_to_execute(module, args, ts) ==
    Prelude(module, args) \o PushTests(ts) \o <<"main(tests);\n">>

\* tmpdir.join("run.js")
js_path == Join(tmpdir, <<"run", ".", "js">>)

Generated(text) == [src |-> << <<"generated">> >>, text |-> text]

WriteFile(files, p, content) ==
    [q \in DOMAIN files \cup {Canon(p)} |-> IF q = Canon(p) THEN content ELSE files[q]]

(***************************************************************************)
(* Inputs                                                                  *)
(***************************************************************************)
Segs == {<<"a">>, <<"a", ".", "js">>, DotDot, <<>>}

RECURSIVE PathsOfLen(_)
PathsOfLen(n) ==
    IF n = 1 THEN {<<"/">> \o s : s \in Segs}
    ELSE {p \o <<"/">> \o s : p \in PathsOfLen(n - 1), s \in Segs}

PathStrings == UNION {PathsOfLen(n) : n \in 1..MaxSegs}

HttpPrefix == <<"http", ":", "/", "/", "h">>

\* request targets: origin form (what a browser sends) and absolute form
RequestUrls == PathStrings \cup {HttpPrefix \o p : p \in PathStrings \cup {<<>>}}

\* regular files that may exist: under the work directory /t, under the
\* project directory /p, and outside both
FileUniverse ==
    { << <<"t">>, <<"a">> >>, << <<"t">>, <<"a", ".", "js">> >>,
      << <<"p">>, <<"a">> >>, << <<"p">>, <<"a", ".", "js">> >>,
      << <<"a">> >>, << <<"a", ".", "js">> >> }

\* every file has bytes of its own
FileBytes(p) == [src |-> p, text |-> <<>>]

StaticFiles(S) == [p \in S |-> FileBytes(p)]

RECURSIVE SeqsOfLen(_, _)
SeqsOfLen(S, n) ==
    IF n = 0 THEN {<<>>}
    ELSE {Append(s, x) : s \in SeqsOfLen(S, n - 1), x \in S}

TestSeqs == UNION {SeqsOfLen(TestNames, n) : n \in 0..MaxTests}

Conns == 1..MaxConn
Clients == {"ok", "broken", "stalled"}

ServerUrls == { <<"/", "a", ".", "js">>,
                HttpPrefix \o <<"/", "a", ".", "js">>,
                HttpPrefix \o <<"/", "a">> }

ServerFiles ==
    StaticFiles({ << <<"t">>, <<"a", ".", "js">> >>, << <<"t">>, <<"a">> >>,
                  << <<"p">>, <<"a">> >> })

ServerTests == <<"t1", "t2">>

Idle == [st |-> "idle", url |-> <<>>, client |-> "ok", resp |-> NoResponse, delivered |-> FALSE]

(***************************************************************************)
(* spawn                                                                   *)
(***************************************************************************)
\* fs::write(&js_path, js_to_execute) succeeds
SpawnWrite ==
    /\ spawn_pc = "start"
    /\ fs' = WriteFile(fs, js_path, Generated(js_to_execute(Module, Args, tests)))
    /\ spawn_pc' = "written"
    /\ UNCHANGED <<headless, tests, socket, queue, conns, request, response>>

\* fs::write fails: spawn returns Err("failed to write JS file"); the file
\* is untouched or left created with nothing in it
SpawnWriteFail ==
    /\ spawn_pc = "start"
    /\ fs' \in {fs, WriteFile(fs, js_path, Generated(<<>>))}
    /\ spawn_pc' = "err_write"
    /\ UNCHANGED <<headless, tests, socket, queue, conns, request, response>>

\* a spawn that binds the socket before the script is on disk
SpawnBindEarly ==
    /\ spawn_pc = "start"
    /\ socket' = TRUE
    /\ spawn_pc' = "serving"
    /\ UNCHANGED <<fs, headless, tests, queue, conns, request, response>>

\* tiny_http::Server::http(addr) succeeds: Ok(Server { server, handler })
SpawnBind ==
    /\ spawn_pc = "written"
    /\ socket' = TRUE
    /\ spawn_pc' = "serving"
    /\ UNCHANGED <<fs, headless, tests, queue, conns, request, response>>

\* tiny_http::Server::http(addr) fails: spawn returns the error
SpawnBindFail ==
    /\ spawn_pc = "written"
    /\ spawn_pc' = "err_bind"
    /\ UNCHANGED <<fs, headless, tests, socket, queue, conns, request, response>>

(***************************************************************************)
(* Server::run and its workers                                             *)
(***************************************************************************)
\* a client connects to the bound socket and sends its request
Arrive(c) ==
    /\ socket
    /\ conns[c].st = "idle"
    /\ \E u \in ServerUrls, k \in Clients :
          conns' = [conns EXCEPT ![c] = [Idle EXCEPT !.st = "incoming", !.url = u, !.client = k]]
    /\ queue' = Append(queue, c)
    /\ UNCHANGED <<fs, headless, tests, spawn_pc, socket, request, response>>

\* an accept loop that handles the request itself instead of spawning
AcceptInline ==
    /\ spawn_pc = "serving"
    /\ queue # <<>>
    /\ \A d \in Conns : conns[d].st \notin {"running", "responding"}
    /\ conns' = [conns EXCEPT ![Head(queue)].st = "running"]
    /\ queue' = Tail(queue)
    /\ UNCHANGED <<fs, headless, tests, spawn_pc, socket, request, response>>

\* one iteration of `for req in self.server.incoming_requests()`:
\* std::thread::spawn(move || handler.process_request(req))
Accept ==
    /\ spawn_pc = "serving"
    /\ queue # <<>>
    /\ conns' = [conns EXCEPT ![Head(queue)].st = "running"]
    /\ queue' = Tail(queue)
    /\ UNCHANGED <<fs, headless, tests, spawn_pc, socket, request, response>>

\* the worker builds its response (parse, root check, asset lookup)
Process(c) ==
    /\ conns[c].st = "running"
    /\ conns' = [conns EXCEPT ![c].st = "responding",
                              ![c].resp = process_request(conns[c].url)]
    /\ UNCHANGED <<fs, headless, tests, spawn_pc, socket, queue, request, response>>

\* let _ = request.respond(..): the write reaches the client, or fails and
\* the error is dropped; a client that does not read blocks the write
Respond(c) ==
    /\ conns[c].st = "responding"
    /\ conns[c].client # "stalled"
    /\ conns' = [conns EXCEPT ![c].st = "done",
                              ![c].delivered = (conns[c].client = "ok")]
    /\ UNCHANGED <<fs, headless, tests, spawn_pc, socket, queue, request, response>>

\* process_request applied to the request at hand
HandleRequest ==
    /\ response = NoResponse
    /\ response' = process_request(request)
    /\ UNCHANGED <<fs, headless, tests, spawn_pc, socket, queue, conns, request>>

(***************************************************************************)
(* Specifications                                                          *)
(***************************************************************************)
\* the handler of a running server, applied to one request: any files, either
\* flag, any request target
Init ==
    /\ \E S \in SUBSET FileUniverse :
          fs = WriteFile(StaticFiles(S), js_path,
                         Generated(js_to_execute(Module, Args, ServerTests)))
    /\ headless \in BOOLEAN
    /\ tests = ServerTests
    /\ spawn_pc = "serving"
    /\ socket = TRUE
    /\ queue = <<>>
    /\ conns = [c \in Conns |-> Idle]
    /\ request \in RequestUrls
    /\ response = NoResponse

Next == HandleRequest

Spec == Init /\ [][Next]_vars

\* spawn alone, for every list of test names
InitSpawn ==
    /\ fs = StaticFiles({})
    /\ headless \in BOOLEAN
    /\ tests \in TestSeqs
    /\ spawn_pc = "start"
    /\ socket = FALSE
    /\ queue = <<>>
    /\ conns = [c \in Conns |-> Idle]
    /\ request = <<>>
    /\ response = NoResponse

NextSpawn == SpawnWrite \/ SpawnWriteFail \/ SpawnBind \/ SpawnBindFail

SpecSpawn == InitSpawn /\ [][NextSpawn]_vars

\* spawn, then the accept loop and one worker per connection
InitServer ==
    /\ fs = ServerFiles
    /\ headless \in BOOLEAN
    /\ tests = ServerTests
    /\ spawn_pc = "start"
    /\ socket = FALSE
    /\ queue = <<>>
    /\ conns = [c \in Conns |-> Idle]
    /\ request = <<>>
    /\ response = NoResponse

NextServer ==
    \/ SpawnWrite
    \/ SpawnWriteFail
    \/ SpawnBind
    \/ SpawnBindFail
    \/ \E c \in Conns : Arrive(c)
    \/ Accept
    \/ \E c \in Conns : Process(c)
    \/ \E c \in Conns : Respond(c)

SpecServer == InitServer /\ [][NextServer]_vars

\* threads are scheduled fairly; clients owe the server nothing
LiveSpec ==
    /\ SpecServer
    /\ WF_vars(Accept)
    /\ \A c \in Conns : WF_vars(Process(c)) /\ WF_vars(Respond(c))

(***************************************************************************)
(* Vocabulary of the properties                                            *)
(***************************************************************************)
\* the path the request asks for: the request target itself in origin form,
\* what follows the authority in absolute form
TargetPath(u) ==
    IF Head(u) = "/" THEN u
    ELSE IF Len(u) = Len(HttpPrefix) THEN <<"/">>
    ELSE SubSeq(u, Len(HttpPrefix) + 1, Len(u))

TargetSegs(p) == SplitSlash(Tail(p))

\* no ".." segment and a file name at the end
PlainPath(p) ==
    /\ \A i \in 1..Len(TargetSegs(p)) : TargetSegs(p)[i] # DotDot
    /\ Last(TargetSegs(p)) # <<>>

\* a plain path without empty segments
CleanPath(p) ==
    /\ PlainPath(p)
    /\ \A i \in 1..Len(TargetSegs(p)) : TargetSegs(p)[i] # <<>>

NonEmpty(c) == c # <<>>
WorkRoot == << <<"t">> >>
ProjRoot == Cwd
\* the file a requested path names under a root
Under(root, p) == root \o SelectSeq(TargetSegs(p), NonEmpty)
IsUnder(root, f) == Len(f) > Len(root) /\ SubSeq(f, 1, Len(root)) = root

NoExt(p) == \A i \in 1..Len(Last(TargetSegs(p))) : Last(TargetSegs(p))[i] # "."
WithJs(p) == p \o <<".", "js">>

EndsWith(n, e) == Len(n) > 2 /\ n[Len(n) - 1] = "." /\ n[Len(n)] = e
ExtensionTable(n) ==
    IF EndsWith(n, "js") THEN "text/javascript"
    ELSE IF EndsWith(n, "wasm") THEN "application/wasm"
    ELSE IF EndsWith(n, "html") THEN "text/html"
    ELSE "application/octet-stream"

Exact(p) == {Under(WorkRoot, p), Under(ProjRoot, p)} \cap DOMAIN fs
\* the request has been answered
Requested == response # NoResponse

(***************************************************************************)
(* Properties of process_request (specification Spec)                      *)
(***************************************************************************)
\* C1: a request whose path is exactly "/" is answered with the root
\* template chosen by the headless flag, as text/html, with a success status.
C1_RootTemplate ==
    (Requested /\ TargetPath(request) = <<"/">>) =>
        /\ response.status = 200
        /\ response.content_type = "text/html"
        /\ response.body = IF headless THEN TemplateHeadless ELSE TemplateInteractive

\* C2: a requested path other than "/" that names an existing file under the
\* work or the project directory is answered with that file's bytes and the
\* content type of that file's extension.
C2_FileServed ==
    (Requested /\ TargetPath(request) # <<"/">> /\ CleanPath(TargetPath(request))
               /\ Exact(TargetPath(request)) # {}) =>
        /\ response.status = 200
        /\ response.file \in Exact(TargetPath(request))
        /\ response.body = fs[response.file]
        /\ response.content_type = ExtensionTable(Last(response.file))

\* the first path of a list that opens, served as a file; 404 when none does
RECURSIVE FirstOpen(_)
FirstOpen(cands) ==
    IF cands = <<>> THEN e404
    ELSE IF CanOpen(Head(cands)) THEN FileResponse(Head(cands))
    ELSE FirstOpen(Tail(cands))

JsCandidate(full_path) ==
    IF Extension(full_path).some THEN <<>> ELSE <<SetExtensionJs(full_path)>>

WorkPath(path) == Join(tmpdir, Tail(path))
ProjPath(path) == Join(ProjectDir, Tail(path))

ExtensionlessA == HttpPrefix \o <<"/", "a">>
OnlyProjectExactAndWorkJs ==
    /\ request = ExtensionlessA
    /\ << <<"t">>, <<"a">> >> \notin DOMAIN fs
    /\ << <<"p">>, <<"a">> >> \in DOMAIN fs
    /\ << <<"t">>, <<"a", ".", "js">> >> \in DOMAIN fs

\* C3 as stated: the resolver tries the exact path under the work directory,
\* the exact path under the project directory, and only then the path with
\* .js appended under each root; an exact file found only under the project
\* directory wins over <path>.js under the work directory.
C3_ExactPathsFirst ==
    (Requested /\ UrlParse(request).ok) =>
        LET path == UrlParse(request).path IN
        /\ response = FirstOpen(<<WorkPath(path), ProjPath(path)>>
                                \o JsCandidate(WorkPath(path)) \o JsCandidate(ProjPath(path)))
        /\ OnlyProjectExactAndWorkJs => response.file = << <<"p">>, <<"a">> >>

\* C3 amended: the resolver goes root by root: the exact path under the work
\* directory, then that path with .js appended when it has no extension,
\* then the same two under the project directory; <path>.js under the work
\* directory wins over an exact file found only under the project directory.
C3_RootByRoot ==
    (Requested /\ UrlParse(request).ok) =>
        LET path == UrlParse(request).path IN
        /\ response = FirstOpen(<<WorkPath(path)>> \o JsCandidate(WorkPath(path))
                                \o <<ProjPath(path)>> \o JsCandidate(ProjPath(path)))
        /\ OnlyProjectExactAndWorkJs =>
              /\ response.file = << <<"t">>, <<"a", ".", "js">> >>
              /\ response.content_type = "text/javascript"

C3_Witness ==
    /\ OnlyProjectExactAndWorkJs
    /\ response.status = 200
    /\ response.file = << <<"t">>, <<"a", ".", "js">> >>

\* C4: a requested path without extension whose <path>.js exists under the
\* work or the project directory is answered with that <path>.js file as
\* text/javascript, never with the 404 response.
C4_ScriptFallback ==
    (Requested /\ TargetPath(request) # <<"/">> /\ CleanPath(TargetPath(request))
               /\ NoExt(TargetPath(request))
               /\ Exact(WithJs(TargetPath(request))) # {}) =>
        /\ response.status = 200
        /\ response.file \in Exact(WithJs(TargetPath(request)))
        /\ response.content_type = "text/javascript"

\* C5: a requested path other than "/" for which neither the exact path nor
\* (without extension) the path with .js appended exists under the work or
\* the project directory is answered with status 404 and an empty body.
C5_MissingIs404 ==
    (Requested /\ TargetPath(request) # <<"/">> /\ PlainPath(TargetPath(request))
               /\ Exact(TargetPath(request)) = {}
               /\ (NoExt(TargetPath(request)) => Exact(WithJs(TargetPath(request))) = {})) =>
        response = e404

\* C10: for a request URL that parses, a served file lies under the work
\* directory or under the project directory.
C10_StaysUnderRoots ==
    (Requested /\ UrlParse(request).ok /\ response.file # NoFile) =>
        IsUnder(WorkRoot, response.file) \/ IsUnder(ProjRoot, response.file)

(***************************************************************************)
(* Properties of spawn (specification SpecSpawn)                           *)
(***************************************************************************)
ScriptWritten == spawn_pc \in {"written", "serving", "err_bind"}
ScriptText == fs[Canon(js_path)].text

\* the names registered by the script, in the order of the statements
RECURSIVE Registered(_)
Registered(s) ==
    IF s = <<>> THEN <<>>
    ELSE IF Head(s) = "tests.push('" /\ Len(s) >= 2
         THEN <<s[2]>> \o Registered(Tail(s))
         ELSE Registered(Tail(s))

Positions(s, tok) == {i \in 1..Len(s) : s[i] = tok}

\* C6: the script registers each test name once per occurrence, in the order
\* given, after the declaration of `tests`, and ends with the one call
\* main(tests); with no test name it registers nothing and still calls once.
C6_Registrations ==
    ScriptWritten =>
        /\ Registered(ScriptText) = tests
        /\ \A i \in Positions(ScriptText, "tests.push('") :
              /\ i + 2 < Len(ScriptText)
              /\ ScriptText[i + 2] = "');\n"
              /\ \E d \in Positions(ScriptText, "const tests = [];\n") : d < i
        /\ Cardinality(Positions(ScriptText, "const tests = [];\n")) = 1
        /\ Positions(ScriptText, "main(tests);\n") = {Len(ScriptText)}
        /\ tests = <<>> => Positions(ScriptText, "tests.push('") = {}

C6_Witness ==
    /\ spawn_pc = "written"
    /\ tests = <<"t2", "t1", "t2">>
    /\ Registered(ScriptText) = <<"t2", "t1", "t2">>

(***************************************************************************)
(* Properties of the running server (specifications SpecServer, LiveSpec)  *)
(***************************************************************************)
Active == {c \in Conns : conns[c].st # "idle"}

\* C7: requests to distinct existing assets, in any interleaving, each get
\* a success response carrying the asset that request named.
C7_OwnAsset ==
    (\A c, d \in Active : c # d => TargetPath(conns[c].url) # TargetPath(conns[d].url)) =>
        \A c \in Active :
            (conns[c].st = "done" /\ conns[c].delivered
                /\ CleanPath(TargetPath(conns[c].url))
                /\ Under(WorkRoot, TargetPath(conns[c].url)) \in DOMAIN fs) =>
                /\ conns[c].resp.status = 200
                /\ conns[c].resp.file = Under(WorkRoot, TargetPath(conns[c].url))
                /\ conns[c].resp.body = fs[conns[c].resp.file]

\* nothing waits in the queue, and the only unfinished workers are those
\* blocked on a client that does not read
Settled ==
    \A c \in Conns :
        /\ conns[c].st # "incoming"
        /\ conns[c].st \in {"running", "responding"} =>
              (conns[c].st = "responding" /\ conns[c].client = "stalled")

\* C8: whatever happens to one worker (its URL does not parse, its asset is
\* missing, its client is gone or stalls), under fair scheduling every
\* connection that arrives is dispatched and every worker whose client reads
\* completes: the server always ends up, and stays, with an empty queue and
\* no unfinished worker other than the stalled ones.
C8_Isolation == <>[]Settled

C8_Witness ==
    \E c, d \in Conns :
        /\ c # d
        /\ conns[c].st = "responding" /\ conns[c].client = "stalled"
        /\ conns[d].st = "done" /\ conns[d].resp.status = 404

\* C9: the script is on disk before the socket is bound, so it exists
\* whenever a request can be accepted; a failed write leaves the socket
\* unbound, and a failed bind yields no server.
C9_ScriptBeforeBind ==
    /\ (socket \/ Active # {} \/ queue # <<>>) =>
          /\ Canon(js_path) \in DOMAIN fs
          /\ fs[Canon(js_path)] = Generated(js_to_execute(Module, Args, tests))
    /\ spawn_pc \in {"err_write", "err_bind"} => (~socket /\ Active = {} /\ queue = <<>>)
    /\ socket => spawn_pc = "serving"

C9_Witness ==
    /\ socket
    /\ \E c \in Conns : conns[c].st = "done"
    /\ Canon(js_path) \in DOMAIN fs

====
